---- MODULE Spec2Model ----
(***************************************************************************)
(* KristWeb2: the TransactionsTable component (state loading / res /       *)
(* options, its fetch effect and the settling of its lookup promises), the *)
(* From / To / Value column renderers, and the AddressButtonRow component. *)
(***************************************************************************)
EXTENDS Integers, Sequences, FiniteSets, TLC

VARIABLES
  props,     \* the props of the current render of TransactionsTable
  options,   \* useState: LookupTransactionsOptions
  loading,   \* useState: boolean
  res,       \* useState: LookupTransactionsResponse | undefined
  mounted,   \* FALSE between the first render and its effect
  calls,     \* every lookupTransactions call made so far, with its promise's
             \* state and the response it fulfilled with
  errors,    \* every call received by an error sink, in order
  resFrom,   \* index in calls of the fetch whose response res holds (0: none)
  depChanges, \* the renders so far in which a dependency of the effect differed
  wallets,   \* AddressButtonRow: the wallet set, in enumeration order
  address,   \* AddressButtonRow: the address record rendered
  row,       \* AddressButtonRow: what the last render returned
  tx,        \* columns: the transaction of the row rendered
  cells      \* columns: what the From / To / Value renderers returned

vars == <<props, options, loading, res, mounted, calls, errors, resFrom,
          depChanges, wallets, address, row, tx, cells>>

tableVars == <<props, options, loading, res, mounted, calls, errors, resFrom,
               depChanges>>
buttonVars == <<wallets, address, row>>
columnVars == <<tx, cells>>

----------------------------------------------------------------------------
(* Optional values: undefined is the empty tuple, a value v is <<v>>.       *)
None == <<>>
Some(v) == <<v>>
IsSome(o) == o # <<>>
Get(o) == o[1]

\* The most fetches one behaviour issues.
MaxFetches == 3

----------------------------------------------------------------------------
(* Props and their domains.                                                 *)
ListingTypes == 0 .. 4
RefreshingIDs == {None, Some(1)}
AddressLists == {None, Some(<<"kaddress01">>)}
Names == {None, Some(""), Some("name")}
IncludeMineds == {None, Some(TRUE)}
ErrorSinks == {None, Some("setError")}

PropsDomain ==
  [listingType : ListingTypes, refreshingID : RefreshingIDs,
   addresses : AddressLists, name : Names, includeMined : IncludeMineds,
   setError : ErrorSinks]

\* LookupTransactionType
TRANSACTIONS == "TRANSACTIONS"
NAME_HISTORY == "NAME_HISTORY"
NAME_TRANSACTIONS == "NAME_TRANSACTIONS"

\* Mutant: the mined listing (2) mapped to the name history type
LISTING_TYPE_MAP_Shifted(listingType) ==
  CASE listingType = 0 -> TRANSACTIONS
    [] listingType = 1 -> TRANSACTIONS
    [] listingType = 2 -> NAME_HISTORY
    [] listingType = 3 -> NAME_HISTORY
    [] listingType = 4 -> NAME_TRANSACTIONS

LISTING_TYPE_MAP(listingType) ==
  CASE listingType = 0 -> TRANSACTIONS
    [] listingType = 1 -> TRANSACTIONS
    [] listingType = 2 -> TRANSACTIONS
    [] listingType = 3 -> NAME_HISTORY
    [] listingType = 4 -> NAME_TRANSACTIONS

\* The value the parent passes next for prop f, which now holds v: the
\* listing switches between the transactions and the name history listing,
\* the refresh counter is incremented, the other props are set and cleared.
PropChange(f, v) ==
  CASE f = "listingType" -> IF v = 0 THEN 3 ELSE 0
    [] f = "refreshingID" -> IF IsSome(v) THEN Some(Get(v) + 1) ELSE Some(1)
    [] f = "addresses" -> IF IsSome(v) THEN None ELSE Some(<<"kaddress01">>)
    [] f = "name" -> IF IsSome(v) THEN None ELSE Some("name")
    [] f = "includeMined" -> IF IsSome(v) THEN None ELSE Some(TRUE)
    [] f = "setError" -> IF v = None THEN Some("setError")
                         ELSE IF v = Some("setError") THEN Some("setPageError")
                         ELSE None

\* The responses the lookup API may give: pages of transaction ids.
Responses ==
  {[count |-> 0, total |-> 0, transactions |-> <<>>],
   [count |-> 1, total |-> 1, transactions |-> <<101>>]}

\* The reason the promise of the i-th call rejects with
Reason(i) == [message |-> "lookup failed", call |-> i]

\* The change events of the table widget: (pagination, filters, sorter)
TableChange(current, pageSize, field, order) ==
  [pagination |-> [current |-> current, pageSize |-> pageSize],
   sorter |-> [field |-> field, order |-> order]]

ChangeEvents ==
  {TableChange(Some(2), Some(20), Some("time"), Some("descend")),
   TableChange(Some(1), Some(50), Some("time"), Some("descend")),
   TableChange(Some(1), Some(20), Some("value"), Some("ascend")),
   TableChange(Some(1), Some(20), Some("time"), Some("descend"))}

convertSorterOrder(order) ==
  IF order = Some("ascend") THEN Some("ASC")
  ELSE IF order = Some("descend") THEN Some("DESC")
  ELSE None

\* utils/table: the options object the change handler passes to setOptions
handleLookupTableChange(pagination, sorter) ==
  LET pageSize == IF IsSome(pagination.pageSize) THEN Get(pagination.pageSize) ELSE 20
      current == IF IsSome(pagination.current) THEN Get(pagination.current) ELSE 1
  IN [limit |-> pageSize,
      offset |-> pageSize * (current - 1),
      orderBy |-> sorter.field,
      order |-> convertSorterOrder(sorter.order)]

\* The sortable columns, and the column the table sorts by at first
SortableColumns == {"from", "to", "value", "name", "time"}
DefaultSortColumn == [dataIndex |-> "time", defaultSortOrder |-> "descend"]

\* dataSource={res?.transactions || []}
dataSource == IF IsSome(res) THEN Get(res).transactions ELSE <<>>

\* Mutant: the initial options sort ascending
DefaultOptionsAscending ==
  [limit |-> 20, offset |-> 0, orderBy |-> Some("time"), order |-> Some("ASC")]

DefaultOptions ==
  [limit |-> 20, offset |-> 0, orderBy |-> Some("time"), order |-> Some("DESC")]

\* JavaScript truthiness of an optional string
TruthyString(s) == IsSome(s) /\ Get(s) # ""

\* Mutant: the addresses win over the name
TargetsAddressesFirst(p) ==
  IF IsSome(p.addresses) THEN p.addresses
  ELSE IF TruthyString(p.name) THEN Some(<<Get(p.name)>>) ELSE None

\* name ? [name] : addresses
Targets(p) ==
  IF TruthyString(p.name) THEN Some(<<Get(p.name)>>) ELSE p.addresses

\* { ...a, ...b }
Spread(a, b) ==
  [k \in DOMAIN a \cup DOMAIN b |-> IF k \in DOMAIN b THEN b[k] ELSE a[k]]

\* Mutant: the request is built from the first page, not from the options
LookupOptionsFirstPage(p, o) ==
  Spread([o EXCEPT !.offset = 0],
         [includeMined |-> p.includeMined,
          type |-> LISTING_TYPE_MAP(p.listingType)])

\* { ...options, includeMined, type: LISTING_TYPE_MAP[listingType] }
LookupOptions(p, o) ==
  Spread(o, [includeMined |-> p.includeMined,
             type |-> LISTING_TYPE_MAP(p.listingType)])

\* The lookupTransactions call of the effect, with the promise it returns
\* and the handlers chained on it (.catch(setError) closes over setError).
LookupCall(p, o) ==
  [targets |-> Targets(p), opts |-> LookupOptions(p, o),
   sink |-> p.setError, status |-> "pending", value |-> None]

\* Mutant: the effect does nothing while a fetch is loading
EffectSkipsWhileLoading(p, o) ==
  /\ Len(calls) < MaxFetches
  /\ loading' = TRUE
  /\ calls' = IF loading THEN calls ELSE Append(calls, LookupCall(p, o))

\* Mutant: the effect issues the fetch without setLoading(true)
EffectNoLoading(p, o) ==
  /\ Len(calls) < MaxFetches
  /\ loading' = loading
  /\ calls' = Append(calls, LookupCall(p, o))

\* The body of the useEffect
Effect(p, o) ==
  /\ Len(calls) < MaxFetches
  /\ loading' = TRUE
  /\ calls' = Append(calls, LookupCall(p, o))

----------------------------------------------------------------------------
Init ==
  /\ props \in {p \in PropsDomain : /\ p.listingType = 0
                                    /\ p.refreshingID = None
                                    /\ p.includeMined = None
                                    /\ p.name = None
                                    /\ p.addresses = None}
  /\ options = DefaultOptions
  /\ loading = TRUE
  /\ res = None
  /\ mounted = FALSE
  /\ calls = <<>>
  /\ errors = <<>>
  /\ resFrom = 0
  /\ depChanges = 0
  /\ wallets = <<>> /\ address = "" /\ row = None
  /\ tx = None /\ cells = None

\* The effect of the first render
Mount ==
  /\ ~mounted
  /\ mounted' = TRUE
  /\ Effect(props, options)
  /\ UNCHANGED <<props, options, res, errors, resFrom, depChanges, buttonVars,
                 columnVars>>

\* Mutant: a changed prop sends the table back to its first page
ChangePropsResetsPage ==
  /\ mounted
  /\ \E f \in DOMAIN props :
       /\ props' = [props EXCEPT ![f] = PropChange(f, props[f])]
       /\ options' = [options EXCEPT !.offset = 0]
       /\ Effect(props', options')
  /\ depChanges' = depChanges + 1
  /\ UNCHANGED <<res, mounted, errors, resFrom, buttonVars, columnVars>>

\* A re-render in which the parent passes a changed prop: the effect's
\* dependency list differs, so the effect runs again.
ChangeProps ==
  /\ mounted
  /\ \E f \in DOMAIN props :
       /\ props' = [props EXCEPT ![f] = PropChange(f, props[f])]
       /\ Effect(props', options)
  /\ depChanges' = depChanges + 1
  /\ UNCHANGED <<options, res, mounted, errors, resFrom, buttonVars, columnVars>>

\* The table widget's onChange: handleLookupTableChange(setOptions) stores a
\* new options object, the component re-renders and the effect runs again.
OnChange ==
  /\ mounted
  /\ \E e \in ChangeEvents :
       /\ options' = handleLookupTableChange(e.pagination, e.sorter)
       /\ Effect(props, options')
  /\ depChanges' = depChanges + 1
  /\ UNCHANGED <<props, res, mounted, errors, resFrom, buttonVars, columnVars>>

\* Mutant: a successful fetch also reports "no error" to the sink
ResolveClearsError(i, r) ==
  /\ calls[i].status = "pending"
  /\ calls' = [calls EXCEPT ![i].status = "resolved", ![i].value = Some(r)]
  /\ res' = Some(r)
  /\ resFrom' = i
  /\ loading' = FALSE
  /\ errors' = IF IsSome(calls[i].sink)
                 THEN Append(errors, [sink |-> Get(calls[i].sink),
                                      reason |-> [message |-> "", call |-> 0]])
                 ELSE errors
  /\ UNCHANGED <<props, options, mounted, depChanges, buttonVars, columnVars>>

\* Mutant: a response is dropped unless it answers the newest call
ResolveLatestOnly(i, r) ==
  /\ calls[i].status = "pending"
  /\ calls' = [calls EXCEPT ![i].status = "resolved", ![i].value = Some(r)]
  /\ res' = IF i = Len(calls) THEN Some(r) ELSE res
  /\ resFrom' = IF i = Len(calls) THEN i ELSE resFrom
  /\ loading' = FALSE
  /\ UNCHANGED <<props, options, mounted, errors, depChanges, buttonVars,
                 columnVars>>

\* The promise of calls[i] fulfils with response r:
\* .then(setRes) stores it, .catch is skipped, .finally clears loading.
Resolve(i, r) ==
  /\ calls[i].status = "pending"
  /\ calls' = [calls EXCEPT ![i].status = "resolved", ![i].value = Some(r)]
  /\ res' = Some(r)
  /\ resFrom' = i
  /\ loading' = FALSE
  /\ UNCHANGED <<props, options, mounted, errors, depChanges, buttonVars,
                 columnVars>>

\* Mutant: a rejected fetch is issued again
RejectRetries(i, e) ==
  /\ calls[i].status = "pending"
  /\ calls' = IF Len(calls) < MaxFetches
                THEN Append([calls EXCEPT ![i].status = "rejected"],
                            [calls[i] EXCEPT !.status = "pending"])
                ELSE [calls EXCEPT ![i].status = "rejected"]
  /\ errors' = IF IsSome(calls[i].sink)
                 THEN Append(errors, [sink |-> Get(calls[i].sink), reason |-> e])
                 ELSE errors
  /\ loading' = (Len(calls) < MaxFetches)
  /\ UNCHANGED <<props, options, res, resFrom, mounted, depChanges, buttonVars,
                 columnVars>>

\* Mutant: loading is cleared by the error handler, not by .finally
RejectFinallyInCatch(i, e) ==
  /\ calls[i].status = "pending"
  /\ calls' = [calls EXCEPT ![i].status = "rejected"]
  /\ errors' = IF IsSome(calls[i].sink)
                 THEN Append(errors, [sink |-> Get(calls[i].sink), reason |-> e])
                 ELSE errors
  /\ loading' = IF IsSome(calls[i].sink) THEN FALSE ELSE loading
  /\ UNCHANGED <<props, options, res, resFrom, mounted, depChanges, buttonVars,
                 columnVars>>

\* Mutant: a rejection also clears the response held
RejectClearsRes(i, e) ==
  /\ calls[i].status = "pending"
  /\ calls' = [calls EXCEPT ![i].status = "rejected"]
  /\ errors' = IF IsSome(calls[i].sink)
                 THEN Append(errors, [sink |-> Get(calls[i].sink), reason |-> e])
                 ELSE errors
  /\ loading' = FALSE
  /\ res' = None
  /\ resFrom' = 0
  /\ UNCHANGED <<props, options, mounted, depChanges, buttonVars, columnVars>>

\* The promise of calls[i] rejects with reason e:
\* .then is skipped, .catch(setError) calls the sink the effect closed over
\* (with no sink the rejection passes through), .finally clears loading.
Reject(i, e) ==
  /\ calls[i].status = "pending"
  /\ calls' = [calls EXCEPT ![i].status = "rejected"]
  /\ errors' = IF IsSome(calls[i].sink)
                 THEN Append(errors, [sink |-> Get(calls[i].sink), reason |-> e])
                 ELSE errors
  /\ loading' = FALSE
  /\ UNCHANGED <<props, options, res, resFrom, mounted, depChanges, buttonVars,
                 columnVars>>

Settle ==
  \E i \in DOMAIN calls :
    \/ \E r \in Responses : Resolve(i, r)
    \/ Reject(i, Reason(i))

Next == Mount \/ ChangeProps \/ OnChange \/ Settle

Spec == Init /\ [][Next]_vars

\* The table mounted with any props, then driven by the table widget alone.
InitLookup ==
  /\ props \in PropsDomain
  /\ options = DefaultOptions
  /\ loading = TRUE
  /\ res = None
  /\ mounted = FALSE
  /\ calls = <<>>
  /\ errors = <<>>
  /\ resFrom = 0
  /\ depChanges = 0
  /\ wallets = <<>> /\ address = "" /\ row = None
  /\ tx = None /\ cells = None

NextLookup == Mount \/ OnChange

SpecLookup == InitLookup /\ [][NextLookup]_vars

----------------------------------------------------------------------------
(* AddressButtonRow                                                         *)

\* The most wallets in the wallet set.
MaxWallets == 2

AddressStrings == {"kaddress01", "KADDRESS01", " kaddress01", "kother0002"}

\* The wallet sets: wallets in the order Object.values enumerates them
WalletSets ==
  UNION {{ws \in [1 .. n -> [id : 1 .. MaxWallets, address : AddressStrings]] :
            \A i, j \in 1 .. n : ws[i].id = ws[j].id => i = j} :
           n \in 0 .. MaxWallets}

\* lower case, surrounding whitespace removed
Normalize(a) ==
  IF a \in {"kaddress01", "KADDRESS01", " kaddress01"} THEN "kaddress01" ELSE a

\* Mutant: addresses are compared after normalisation
WalletMatchesNormalized(w, a) == Normalize(w.address) = Normalize(a)

\* w => w.address === address.address
WalletMatches(w, a) == w.address = a

\* Mutant: the last element satisfying the predicate
FindLast(ws, a) ==
  IF \E i \in DOMAIN ws : WalletMatches(ws[i], a)
    THEN Some(ws[CHOOSE i \in DOMAIN ws :
                    /\ WalletMatches(ws[i], a)
                    /\ \A j \in i + 1 .. Len(ws) : ~WalletMatches(ws[j], a)])
    ELSE None

\* Array.prototype.find: the first element satisfying the predicate
Find(ws, a) ==
  IF \E i \in DOMAIN ws : WalletMatches(ws[i], a)
    THEN Some(ws[CHOOSE i \in DOMAIN ws :
                    /\ WalletMatches(ws[i], a)
                    /\ \A j \in 1 .. i - 1 : ~WalletMatches(ws[j], a)])
    ELSE None

Button(type, icon, label) ==
  [component |-> "Button", type |-> type, icon |-> icon, label |-> label,
   wallet |-> None]

\* Send/transfer Krist button
SendButton(myWallet) ==
  IF IsSome(myWallet)
    THEN Button(Some("primary"), "SwapOutlined", "address.buttonTransferKrist")
    ELSE Button(Some("primary"), "SendOutlined", "address.buttonSendKrist")

\* Mutant: the second button is always "add friend"
FriendButtonAlwaysAdd(myWallet) ==
  Button(None, "UserAddOutlined", "address.buttonAddFriend")

\* Add friend/edit wallet button
FriendButton(myWallet) ==
  IF IsSome(myWallet)
    THEN [component |-> "WalletEditButton", type |-> None,
          icon |-> "EditOutlined", label |-> "address.buttonEditWallet",
          wallet |-> myWallet]
    ELSE Button(None, "UserAddOutlined", "address.buttonAddFriend")

AddressButtonRow(ws, a) ==
  LET myWallet == Find(ws, a)
  IN <<SendButton(myWallet), FriendButton(myWallet)>>

InitButtons ==
  /\ wallets \in WalletSets
  /\ address \in AddressStrings
  /\ row = None
  /\ props = [listingType |-> 0, refreshingID |-> None, addresses |-> None,
              name |-> None, includeMined |-> None, setError |-> None]
  /\ options = DefaultOptions
  /\ loading = TRUE /\ res = None /\ mounted = FALSE
  /\ calls = <<>> /\ errors = <<>> /\ resFrom = 0 /\ depChanges = 0
  /\ tx = None /\ cells = None

RenderButtons ==
  /\ row = None
  /\ row' = Some(AddressButtonRow(wallets, address))
  /\ UNCHANGED <<wallets, address, tableVars, columnVars>>

NextButtons == RenderButtons

SpecButtons == InitButtons /\ [][NextButtons]_vars

----------------------------------------------------------------------------
(* The From, To and Value columns of TransactionsTable                      *)

TransactionTypes ==
  {"unknown", "mined", "name_purchase", "name_a_record", "name_transfer",
   "transfer"}

\* components/transactions/TransactionType: the value-bearing types
TYPES_SHOW_VALUE == <<"transfer", "mined", "name_purchase">>

\* Array.prototype.includes
Includes(arr, x) == \E i \in DOMAIN arr : arr[i] = x

Transactions ==
  [type : TransactionTypes, from : {None, Some("kfrom00001")},
   to : {None, Some("kto0000002")}, value : {0, 1, 500}]

ContextualAddress(a) == Some([component |-> "ContextualAddress", address |-> a])
KristValue(v) == Some([component |-> "KristValue", value |-> v])

\* From: render: (from, tx) => from && tx.type !== "mined" && <ContextualAddress />
FromRender(from, t) ==
  IF TruthyString(from) /\ t.type # "mined"
    THEN ContextualAddress(Get(from))
    ELSE None

\* Mutant: the To cell is suppressed for name purchases only
ToRenderPurchaseOnly(to, t) ==
  IF TruthyString(to) /\ t.type # "name_purchase"
    THEN ContextualAddress(Get(to))
    ELSE None

\* To: render: (to, tx) => to && tx.type !== "name_purchase"
\*       && tx.type !== "name_a_record" && <ContextualAddress />
ToRender(to, t) ==
  IF TruthyString(to) /\ t.type # "name_purchase" /\ t.type # "name_a_record"
    THEN ContextualAddress(Get(to))
    ELSE None

\* Mutant: the Value cell is rendered whenever the value is not zero
ValueRenderNonZero(value, t) ==
  IF value # 0 THEN KristValue(value) ELSE None

\* Value: render: (value, tx) => TYPES_SHOW_VALUE.includes(tx.type) && <KristValue />
ValueRender(value, t) ==
  IF Includes(TYPES_SHOW_VALUE, t.type) THEN KristValue(value) ELSE None

InitColumns ==
  /\ tx \in {Some(t) : t \in Transactions}
  /\ cells = None
  /\ props = [listingType |-> 0, refreshingID |-> None, addresses |-> None,
              name |-> None, includeMined |-> None, setError |-> None]
  /\ options = DefaultOptions
  /\ loading = TRUE /\ res = None /\ mounted = FALSE
  /\ calls = <<>> /\ errors = <<>> /\ resFrom = 0 /\ depChanges = 0
  /\ wallets = <<>> /\ address = "" /\ row = None

\* The table renders the row of tx: each column's render gets the field its
\* dataIndex names and the record
RenderCells ==
  /\ cells = None
  /\ cells' = Some([from |-> FromRender(Get(tx).from, Get(tx)),
                    to |-> ToRender(Get(tx).to, Get(tx)),
                    value |-> ValueRender(Get(tx).value, Get(tx))])
  /\ UNCHANGED <<tx, tableVars, buttonVars>>

NextColumns == RenderCells

SpecColumns == InitColumns /\ [][NextColumns]_vars
----------------------------------------------------------------------------
(* Properties                                                               *)

Pending(i) == calls[i].status = "pending"
Settled(i) == calls[i].status # "pending"
\* The step settles the promise of call i
Rejects(i) == calls[i].status = "pending" /\ calls'[i].status = "rejected"
Resolves(i) == calls[i].status = "pending" /\ calls'[i].status = "resolved"
\* The step issues a fetch
Issues == Len(calls') = Len(calls) + 1
LastCall == calls[Len(calls)]

\* C1 as stated: whenever an issued fetch rejects, loading becomes false,
\* the error sink is called exactly once with the rejection reason, and res
\* keeps the value it had.
C1_SinkCalledOnEveryRejection ==
  [][\A i \in DOMAIN calls :
       Rejects(i) =>
         /\ loading' = FALSE
         /\ Len(errors') = Len(errors) + 1
         /\ errors'[Len(errors')].reason = Reason(i)
         /\ res' = res]_vars

\* C1 (amended): whenever an issued fetch rejects, loading becomes false and
\* res keeps the value it had; the error sink that was supplied as setError
\* when the fetch was issued is called exactly once, with the rejection
\* reason, and when no setError was supplied then, no sink is called.
C1_RejectionOutcome ==
  [][\A i \in DOMAIN calls :
       Rejects(i) =>
         /\ loading' = FALSE
         /\ res' = res
         /\ resFrom' = resFrom
         /\ IF IsSome(calls[i].sink)
              THEN errors' = Append(errors, [sink |-> Get(calls[i].sink),
                                             reason |-> Reason(i)])
              ELSE errors' = errors]_vars

\* A fetch issued after a response was stored has rejected, its sink has
\* been called once, and the response is still held.
C1_Witness ==
  \E i \in DOMAIN calls :
    /\ calls[i].status = "rejected"
    /\ IsSome(calls[i].sink)
    /\ errors = <<[sink |-> Get(calls[i].sink), reason |-> Reason(i)]>>
    /\ resFrom > 0 /\ resFrom < i
    /\ res = calls[resFrom].value
    /\ ~loading

\* C2: when an earlier-issued fetch resolves after a later-issued one has
\* resolved, res is overwritten with the earlier fetch's response: nothing
\* discards the stale response.
C2_StaleResponseOverwrites ==
  [][\A i, j \in DOMAIN calls :
       (i < j /\ calls[j].status = "resolved" /\ Resolves(i)) =>
         /\ resFrom' = i
         /\ res' = calls'[i].value
         /\ IsSome(res')]_vars

\* Every fetch has settled, the newest one resolved, and the table holds a
\* different response, of an earlier fetch whose request differs from the
\* request the current options and props make.
C2_Witness ==
  /\ Len(calls) >= 2
  /\ \A i \in DOMAIN calls : Settled(i)
  /\ LastCall.status = "resolved"
  /\ resFrom > 0 /\ resFrom < Len(calls)
  /\ res = calls[resFrom].value
  /\ res # LastCall.value
  /\ calls[resFrom].opts # LookupOptions(props, options)
  /\ LastCall.opts = LookupOptions(props, options)

\* C3: each change of options triggers exactly one new fetch call, whose
\* limit, offset, orderBy and order are those of the new options.
C3_OptionsChangeFetchesOnce ==
  [][options' # options =>
       /\ Issues
       /\ \A i \in DOMAIN calls : calls'[i] = calls[i]
       /\ LET c == calls'[Len(calls')]
          IN /\ c.status = "pending"
             /\ c.opts.limit = options'.limit
             /\ c.opts.offset = options'.offset
             /\ c.opts.orderBy = options'.orderBy
             /\ c.opts.order = options'.order]_vars

\* Page 2 has been selected: the newest call asks for offset 20
C3_Witness ==
  /\ Len(calls) = 2
  /\ options.offset = 20 /\ options.limit = 20
  /\ LastCall.opts.offset = 20
  /\ calls[1].opts.offset = 0

\* C4: the type filter of every lookupTransactions call is the one mapped
\* from the listing type: TRANSACTIONS for the listing types 0, 1 and 2,
\* NAME_HISTORY for 3 and NAME_TRANSACTIONS for 4.
C4_TypeFilterMapped ==
  \A i \in DOMAIN calls :
    /\ props.listingType \in {0, 1, 2} => calls[i].opts.type = "TRANSACTIONS"
    /\ props.listingType = 3 => calls[i].opts.type = "NAME_HISTORY"
    /\ props.listingType = 4 => calls[i].opts.type = "NAME_TRANSACTIONS"

\* The mined listing (2) has made two calls
C4_Witness ==
  /\ props.listingType = 2
  /\ Len(calls) = 2
  /\ \A i \in DOMAIN calls : calls[i].opts.type = "TRANSACTIONS"

HasWalletWithAddress == \E i \in DOMAIN wallets : wallets[i].address = address
Labels(r) == <<r[1].label, r[2].label>>

\* C5: AddressButtonRow renders exactly two actions: "transfer" and the
\* "edit wallet" trigger if some wallet's address equals the record's
\* address, "send" and "add friend" otherwise.
C5_TwoButtonsAgree ==
  IsSome(row) =>
    /\ Len(Get(row)) = 2
    /\ Labels(Get(row)) =
         IF HasWalletWithAddress
           THEN <<"address.buttonTransferKrist", "address.buttonEditWallet">>
           ELSE <<"address.buttonSendKrist", "address.buttonAddFriend">>
    /\ Get(row)[1].component = "Button"
    /\ Get(row)[2].component =
         IF HasWalletWithAddress THEN "WalletEditButton" ELSE "Button"

\* The row rendered for an address the second of two wallets holds
C5_Witness ==
  /\ IsSome(row)
  /\ Len(wallets) = 2
  /\ wallets[1].address # address
  /\ wallets[2].address = address
  /\ Get(row)[2].component = "WalletEditButton"

\* C6: an address that differs from every wallet address, even only in
\* letter case or surrounding whitespace, does not match: the row is
\* "send" and "add friend".
C6_ExactMatchOnly ==
  (IsSome(row) /\ \A i \in DOMAIN wallets : wallets[i].address # address) =>
    /\ Get(row)[1].label = "address.buttonSendKrist"
    /\ Get(row)[2].label = "address.buttonAddFriend"
    /\ Get(row)[2].wallet = None

\* The row rendered for an address of which the wallets hold a variant in
\* upper case and a variant with a leading space
C6_Witness ==
  /\ IsSome(row)
  /\ address = "kaddress01"
  /\ Len(wallets) = 2
  /\ wallets[1].address = "KADDRESS01"
  /\ wallets[2].address = " kaddress01"
  /\ Get(row)[1].label = "address.buttonSendKrist"

\* C7: on first render, and until a fetch has settled, loading is true and
\* the data sequence is empty (res is absent); on first render options are
\* limit 20, offset 0, ordered by time descending, which is the column and
\* the order the table widget sorts by at first.
C7_FirstRender ==
  /\ ~mounted =>
       /\ calls = <<>>
       /\ options.limit = 20
       /\ options.offset = 0
       /\ options.orderBy = Some(DefaultSortColumn.dataIndex)
       /\ options.orderBy = Some("time")
       /\ options.order = Some("DESC")
       /\ DefaultSortColumn.defaultSortOrder = "descend"
  /\ (\A i \in DOMAIN calls : Pending(i)) =>
       /\ loading = TRUE
       /\ res = None
       /\ dataSource = <<>>

\* The effect of the first render has issued its fetch, which is in flight
C7_Witness ==
  /\ mounted
  /\ Len(calls) = 1 /\ Pending(1)
  /\ loading /\ dataSource = <<>>

\* C8: for type "mined" the From cell renders nothing, for "name_purchase"
\* and "name_a_record" the To cell renders nothing, whatever the field
\* holds; for every other type the cell renders the address exactly when
\* the field is present.
C8_FromToCells ==
  IsSome(cells) =>
    LET t == Get(tx)
        c == Get(cells)
    IN /\ t.type = "mined" => c.from = None
       /\ t.type \in {"name_purchase", "name_a_record"} => c.to = None
       /\ t.type # "mined" =>
            c.from = IF t.from = None THEN None
                     ELSE Some([component |-> "ContextualAddress",
                                address |-> Get(t.from)])
       /\ t.type \notin {"name_purchase", "name_a_record"} =>
            c.to = IF t.to = None THEN None
                   ELSE Some([component |-> "ContextualAddress",
                              address |-> Get(t.to)])

\* A name_a_record transaction holding both addresses: From is rendered,
\* To is not
C8_Witness ==
  /\ IsSome(cells)
  /\ Get(tx).type = "name_a_record"
  /\ IsSome(Get(tx).from) /\ IsSome(Get(tx).to)
  /\ IsSome(Get(cells).from)
  /\ Get(cells).to = None

\* C9: the Value cell renders the value if and only if the transaction's
\* type is in TYPES_SHOW_VALUE, and nothing for every other type.
C9_ValueCell ==
  IsSome(cells) =>
    LET t == Get(tx)
        c == Get(cells)
        shown == t.type \in {TYPES_SHOW_VALUE[i] : i \in DOMAIN TYPES_SHOW_VALUE}
    IN /\ shown => c.value = Some([component |-> "KristValue", value |-> t.value])
       /\ ~shown => c.value = None

\* A name transfer carrying a value: the Value cell is empty
C9_Witness ==
  /\ IsSome(cells)
  /\ Get(tx).type = "name_transfer"
  /\ Get(tx).value = 500
  /\ Get(cells).value = None

\* C10 as stated: while an issued fetch has not settled, loading is true.
C10_LoadingWhileInFlight ==
  (\E i \in DOMAIN calls : Pending(i)) => loading = TRUE

\* C10 (amended): a fetch that is issued sets loading to true, and loading
\* then remains true as long as no fetch settles; when any fetch settles,
\* loading becomes false even though the hung fetch is still in flight.
C10_LoadingUntilAnySettles ==
  [][/\ Issues => loading' = TRUE
     /\ (loading /\ ~loading') => \E j \in DOMAIN calls : Pending(j) /\ calls'[j].status # "pending"
     /\ (\E j \in DOMAIN calls : Pending(j) /\ calls'[j].status # "pending")
          => loading' = FALSE]_vars

\* A fetch is still in flight, a fetch issued after it has settled, and
\* loading is false
C10_Witness ==
  \E i, j \in DOMAIN calls :
    /\ i < j
    /\ Pending(i)
    /\ Settled(j)
    /\ loading = FALSE

\* The step is a render in which a dependency of the effect differs
DependencyChanges ==
  props' # props \/ options' # options \/ depChanges' # depChanges
SomeSettles == \E j \in DOMAIN calls : Pending(j) /\ calls'[j].status # "pending"
Resolved == {i \in DOMAIN calls : calls[i].status = "resolved"}
Rejected == {i \in DOMAIN calls : calls[i].status = "rejected"}

\* C11: when a fetch resolves, its response is stored in res and loading
\* becomes false; the data sequence shown is the transactions of the fetch
\* that resolved last, empty while none has resolved, and a step in which no
\* fetch resolves (a fetch issued, a fetch rejected) leaves it as it is.
C11_DataOfLastResolved ==
  /\ [](Resolved = {} => (res = None /\ dataSource = <<>>))
  /\ [][/\ \A i \in DOMAIN calls :
             Resolves(i) =>
               /\ res' = calls'[i].value
               /\ IsSome(res')
               /\ dataSource' = Get(calls'[i].value).transactions
               /\ loading' = FALSE
        /\ (~ \E i \in DOMAIN calls : Resolves(i)) =>
             (res' = res /\ dataSource' = dataSource)]_vars

\* A page of transactions is shown; since it arrived a fetch has rejected
\* and a further fetch is in flight
C11_Witness ==
  /\ dataSource = <<101>>
  /\ resFrom = 1
  /\ Len(calls) = 3
  /\ calls[2].status = "rejected"
  /\ Pending(3)
  /\ loading

\* C12: mount and every change of a dependency set loading to true and
\* issue exactly one fetch built from the current options and props; a
\* change of refreshingID leaves the options alone and repeats the request
\* of the call before; a step that changes no dependency issues no fetch.
C12_OneFetchPerDependencyChange ==
  [][/\ (mounted' # mounted \/ DependencyChanges) =>
          /\ Issues
          /\ loading' = TRUE
          /\ \A i \in DOMAIN calls : calls'[i] = calls[i]
          /\ LET c == calls'[Len(calls')]
             IN /\ c.status = "pending"
                /\ c.targets = IF props'.name \in {None, Some("")}
                                 THEN props'.addresses
                                 ELSE Some(<<Get(props'.name)>>)
                /\ c.opts.limit = options'.limit
                /\ c.opts.offset = options'.offset
                /\ c.opts.orderBy = options'.orderBy
                /\ c.opts.order = options'.order
                /\ c.opts.includeMined = props'.includeMined
                /\ c.opts.type = IF props'.listingType = 0 THEN "TRANSACTIONS"
                                 ELSE "NAME_HISTORY"
     /\ props'.refreshingID # props.refreshingID =>
          /\ options' = options
          /\ calls'[Len(calls')].targets = LastCall.targets
          /\ calls'[Len(calls')].opts = LastCall.opts
     /\ ~(mounted' # mounted \/ DependencyChanges) => Len(calls') = Len(calls)]_vars

\* The first fetch has settled and a change of refreshingID alone has
\* issued the same request again
C12_Witness ==
  /\ Len(calls) = 2
  /\ depChanges = 1
  /\ props.refreshingID = Some(1)
  /\ Settled(1) /\ Pending(2)
  /\ calls[2].opts = calls[1].opts /\ calls[2].targets = calls[1].targets
  /\ loading

\* C13: no retry: a step in which a fetch rejects issues no fetch, and the
\* number of fetches issued is one plus the number of dependency changes
\* once mounted, however many fetches failed.
C13_NoRetry ==
  /\ [](Len(calls) = IF mounted THEN 1 + depChanges ELSE 0)
  /\ [][(\E i \in DOMAIN calls : Rejects(i)) =>
          /\ Len(calls') = Len(calls)
          /\ depChanges' = depChanges]_vars

\* Both fetches issued have failed, after one dependency change
C13_Witness ==
  /\ depChanges = 1
  /\ Len(calls) = 2
  /\ Rejected = {1, 2}

\* C14: options is changed only by the table's change handler: a step that
\* mounts, changes a prop or settles a fetch leaves options unchanged, and
\* a step that changes options is one change handled, with the props kept.
C14_OptionsOnlyByChangeHandler ==
  [][/\ (mounted' # mounted \/ props' # props \/ SomeSettles) => options' = options
     /\ options' # options =>
          /\ props' = props
          /\ depChanges' = depChanges + 1
          /\ \E e \in ChangeEvents :
               options' = handleLookupTableChange(e.pagination, e.sorter)]_vars

\* On page 2, the listing type has changed: the call made then still asks
\* for offset 20
C14_Witness ==
  /\ Len(calls) = 3
  /\ options.offset = 20
  /\ calls[2].opts.offset = 20 /\ calls[2].opts.type = "TRANSACTIONS"
  /\ calls[3].opts.offset = 20 /\ calls[3].opts.type = "NAME_HISTORY"
  /\ props.listingType = 3

\* C15: the targets of every lookupTransactions call are the one-element
\* list of the name when the name is present and not empty, and the
\* addresses prop as given (possibly absent) otherwise: the name wins.
C15_TargetsNameWins ==
  \A i \in DOMAIN calls :
    /\ (props.name # None /\ props.name # Some("")) =>
         calls[i].targets = Some(<<props.name[1]>>)
    /\ (props.name = None \/ props.name = Some("")) =>
         calls[i].targets = props.addresses

\* Name and addresses are both supplied: the call targets the name
C15_Witness ==
  /\ props.name = Some("name")
  /\ props.addresses = Some(<<"kaddress01">>)
  /\ Len(calls) >= 1
  /\ calls[1].targets = Some(<<"name">>)

\* C16: the wallet passed to the edit-wallet trigger is the first wallet, in
\* the wallet set's enumeration order, whose address equals the record's.
C16_FirstMatchingWallet ==
  (IsSome(row) /\ HasWalletWithAddress) =>
    \E k \in DOMAIN wallets :
      /\ wallets[k].address = address
      /\ \A j \in 1 .. k - 1 : wallets[j].address # address
      /\ Get(row)[2].wallet = Some(wallets[k])

\* Two wallets hold the record's address: the first is the one edited
C16_Witness ==
  /\ IsSome(row)
  /\ Len(wallets) = 2
  /\ wallets[1].address = address /\ wallets[2].address = address
  /\ wallets[1].id # wallets[2].id
  /\ Get(row)[2].wallet = Some(wallets[1])

\* C17: after mount, if no fetch is in flight then loading is false.
C17_IdleMeansNotLoading ==
  (mounted /\ \A i \in DOMAIN calls : Settled(i)) => loading = FALSE

\* Every fetch has settled, the last by rejecting with no error sink
C17_Witness ==
  /\ mounted
  /\ Len(calls) = 2
  /\ Settled(1)
  /\ calls[2].status = "rejected" /\ calls[2].sink = None
  /\ errors = <<>>
  /\ ~loading

\* C18 as stated: the number of error-sink calls equals the number of
\* rejected fetches.
C18_SinkCallsEqualRejections ==
  Len(errors) = Cardinality(Rejected)

\* C18 (amended): the error sink is invoked only in a step in which a fetch
\* rejects, never when a fetch resolves; the number of sink calls equals the
\* number of rejected fetches that were issued with a setError supplied,
\* and no step removes or alters a call already made to a sink.
C18_SinkCallsOnlyOnRejection ==
  /\ [](Len(errors) = Cardinality({i \in Rejected : IsSome(calls[i].sink)}))
  /\ [][/\ errors' # errors => \E i \in DOMAIN calls : Rejects(i)
        /\ (\E i \in DOMAIN calls : Resolves(i)) => errors' = errors
        /\ Len(errors') >= Len(errors)
        /\ SubSeq(errors', 1, Len(errors)) = errors]_vars

\* A fetch rejected and its sink was called; a later fetch has resolved and
\* the call to the sink stands
C18_Witness ==
  /\ Len(calls) = 2
  /\ calls[1].status = "rejected" /\ IsSome(calls[1].sink)
  /\ calls[2].status = "resolved"
  /\ resFrom = 2
  /\ errors = <<[sink |-> Get(calls[1].sink), reason |-> Reason(1)]>>
====
